---- MODULE Spec2Model ----
(***************************************************************************)
(* IIIFv3toV2Converter: conversion of a IIIF Presentation v3 manifest to   *)
(* the v2 shape.  Two classes of the same name exist, one in               *)
(* converter/converter.py (attaches a top-level thumbnail) and one in      *)
(* iiif_downgrade.py (no thumbnail handling).                              *)
(*                                                                         *)
(* Encoding of Python values:                                              *)
(*   dict            a function whose domain is the set of keys present    *)
(*   list            a sequence                                            *)
(*   str / number    a string; NoneV is Python's None in a scalar slot     *)
(*   None (dict slot) NoneD, the function with no keys                     *)
(*   a slot whose Python type varies (the constructor argument, a label,   *)
(*   a thumbnail) is tagged with its type: DictV(d), ListV(l), StrV(s),    *)
(*   NumV(n), NoneT                                                        *)
(*   a language map keeps its insertion order: a sequence of               *)
(*   [lang, values] entries with distinct lang, values tagged              *)
(* A call that may raise yields Ok(v) or Raise(e).                         *)
(***************************************************************************)
EXTENDS Naturals, Sequences, FiniteSets, TLC

VARIABLES
    module,        \* which source file's class the instance belongs to
    alive,         \* an instance was constructed (__init__ returned)
    v3_manifest,   \* self.v3_manifest (tagged)
    override_id,   \* self.override_id
    v2_manifest,   \* self.v2_manifest, NoneD while None
    files,         \* the filesystem: path -> document written, NoneD if no file
    outcome,       \* the last call: [op, arg, exc], exc = "" when it returned
    returned,      \* history: some convert() on the instance returned normally
    fn_arg,        \* argument of a helper called on its own
    fn_res         \* its result, Pending before the call

vars == <<module, alive, v3_manifest, override_id, v2_manifest, files,
          outcome, returned, fn_arg, fn_res>>

-----------------------------------------------------------------------------
(* Bounds of the input space *)
MaxLangs == 2
MaxCanvases == 2
MaxPages == 2
MaxAnnos == 2
MaxValues == 2
MaxServices == 1
MaxThumbnails == 2

-----------------------------------------------------------------------------
(* Python values *)
NoneV == "None"
NoneD == <<>>

Ok(v) == [exc |-> "", val |-> v]
Raise(e) == [exc |-> e]
Pending == [exc |-> "pending"]

\* d.get(k, default)
Get(d, k, default) == IF k \in DOMAIN d THEN d[k] ELSE default

\* truth value of a scalar (None and "" are falsy)
TruthyStr(s) == s # NoneV /\ s # ""

\* tagged values
DictV(d) == [kind |-> "dict", dict |-> d]
ListV(l) == [kind |-> "list", list |-> l]
StrV(s) == [kind |-> "str", str |-> s]
NumV(n) == [kind |-> "num", num |-> n]
NoneT == [kind |-> "None"]

\* truth value of a tagged value
Truthy(v) ==
    CASE v.kind = "None" -> FALSE
      [] v.kind = "list" -> Len(v.list) > 0
      [] v.kind = "dict" -> DOMAIN v.dict # {}
      [] v.kind = "str"  -> v.str # ""
      [] v.kind = "num"  -> v.num # 0

\* v[0] for a tagged value that is a list, a dict (no key 0) or a number
Index0(v) ==
    CASE v.kind = "list" -> IF Len(v.list) > 0 THEN Ok(v.list[1]) ELSE Raise("IndexError")
      [] v.kind = "dict" -> Raise("KeyError")
      [] OTHER           -> Raise("TypeError")

\* all sequences over S of length at most n
SeqUpTo(S, n) == UNION {[1..k -> S] : k \in 0..n}

\* a dict with the optional key k, its value from S
Opt(k, S) == {NoneD} \cup {k :> v : v \in S}

-----------------------------------------------------------------------------
(* _label_to_v2 *)
RECURSIVE LabelScan(_, _)
LabelScan(entries, i) ==
    IF i > Len(entries) THEN Ok("")
    ELSE IF Truthy(entries[i].values) THEN Index0(entries[i].values)
    ELSE LabelScan(entries, i + 1)

label_to_v2(label_obj) ==
    IF label_obj.kind = "dict" THEN LabelScan(label_obj.dict, 1) ELSE Ok("")

(* _metadata_to_v2 *)
RECURSIVE MetadataScan(_, _, _)
MetadataScan(metadata_list, i, out) ==
    IF i > Len(metadata_list) THEN Ok(out)
    ELSE LET entry == metadata_list[i]
             label == label_to_v2(Get(entry, "label", NoneT))
             value == label_to_v2(Get(entry, "value", NoneT))
         IN  IF label.exc # "" THEN label
             ELSE IF value.exc # "" THEN value
             ELSE MetadataScan(metadata_list, i + 1,
                      Append(out, [label |-> label.val, value |-> value.val]))

metadata_to_v2(metadata_list) == MetadataScan(metadata_list, 1, <<>>)

-----------------------------------------------------------------------------
(* _annotations_to_v2 *)
Image(body, canvas) ==
    [x \in {"@type", "motivation", "resource", "on"} |->
        CASE x = "@type"      -> "oa:Annotation"
          [] x = "motivation" -> "sc:painting"
          [] x = "on"         -> Get(canvas, "id", NoneV)
          [] x = "resource"   ->
                [y \in {"@id", "@type", "format", "height", "width"} |->
                    CASE y = "@id"   -> Get(body, "id", NoneV)
                      [] y = "@type" -> "dctypes:Image"
                      [] OTHER       -> Get(body, y, NoneV)]]

RECURSIVE PageImages(_, _, _)
PageImages(annos, i, canvas) ==
    IF i > Len(annos) THEN <<>>
    ELSE <<Image(Get(annos[i], "body", NoneD), canvas)>>
         \o PageImages(annos, i + 1, canvas)

\* the outer loop run over the pages in reverse
RECURSIVE AnnotationScanLastPageFirst(_, _, _)
AnnotationScanLastPageFirst(pages, i, canvas) ==
    IF i > Len(pages) THEN <<>>
    ELSE AnnotationScanLastPageFirst(pages, i + 1, canvas)
         \o PageImages(Get(pages[i], "items", <<>>), 1, canvas)

RECURSIVE AnnotationScan(_, _, _)
AnnotationScan(pages, i, canvas) ==
    IF i > Len(pages) THEN <<>>
    ELSE PageImages(Get(pages[i], "items", <<>>), 1, canvas)
         \o AnnotationScan(pages, i + 1, canvas)

annotations_to_v2(canvas) == AnnotationScan(Get(canvas, "items", <<>>), 1, canvas)

(* _canvases_to_v2 *)
RECURSIVE CanvasScan(_, _, _)
CanvasScan(items, i, canvases) ==
    IF i > Len(items) THEN Ok(canvases)
    ELSE LET canvas == items[i]
             label == label_to_v2(Get(canvas, "label", NoneT))
         IN  IF label.exc # "" THEN label
             ELSE CanvasScan(items, i + 1, Append(canvases,
                    [x \in {"@id", "@type", "label", "height", "width", "images"} |->
                        CASE x = "@id"    -> Get(canvas, "id", NoneV)
                          [] x = "@type"  -> "sc:Canvas"
                          [] x = "label"  -> label.val
                          [] x = "images" -> annotations_to_v2(canvas)
                          [] OTHER        -> Get(canvas, x, NoneV)]))

canvases_to_v2(items) == CanvasScan(items, 1, <<>>)

-----------------------------------------------------------------------------
(* _thumbnail_to_v2 (converter/converter.py only) *)
Service(svc) ==
    [x \in {"label", "profile", "@context", "@id"} |->
        CASE x = "label"    -> Get(svc, "label", "IIIF Image Service")
          [] x = "profile"  -> "http://iiif.io/api/image/2/level0.json"
          [] x = "@context" -> "http://iiif.io/api/image/2/context.json"
          [] x = "@id"      -> Get(svc, "id", NoneV)]

\* lines 136-149, for a thumbnail that is a dict
ThumbnailOfDict(t) ==
    LET service == IF "service" \in DOMAIN t /\ Len(t["service"]) > 0
                   THEN Service(t["service"][1])
                   ELSE NoneD
    IN  Ok([x \in {"@id", "service"} |->
              IF x = "@id" THEN Get(t, "id", NoneV) ELSE service])

\* lines 136-149, for whatever the unwrapping left
ThumbnailBuild(t) ==
    CASE t.kind = "dict" -> ThumbnailOfDict(t.dict)
      [] t.kind \in {"None", "num"} -> Raise("TypeError")
      [] t.kind \in {"str", "list"} -> Raise("AttributeError")

thumbnail_to_v2(v3_thumbnail) ==
    IF ~Truthy(v3_thumbnail) THEN Ok(NoneD)
    ELSE IF v3_thumbnail.kind = "list" THEN ThumbnailBuild(v3_thumbnail.list[1])
    ELSE ThumbnailBuild(v3_thumbnail)

-----------------------------------------------------------------------------
(* __init__ *)
\* lines 20-22 alone, without the isinstance test
initUnchecked(manifest, manifest_id) ==
    Ok([v3_manifest |-> manifest, override_id |-> manifest_id, v2_manifest |-> NoneD])

init(manifest, manifest_id) ==
    IF manifest.kind # "dict" THEN Raise("TypeError")
    ELSE Ok([v3_manifest |-> manifest, override_id |-> manifest_id,
             v2_manifest |-> NoneD])

(* convert, lines 28-42 of both files: the dict literal is built, and only  *)
(* then bound to self.v2_manifest                                           *)
\* line 28 with the operands of 'or' exchanged
ResolveIdIdFirst(v3, oid) ==
    IF TruthyStr(Get(v3, "id", NoneV)) THEN v3["id"] ELSE oid

\* line 28: self.override_id or v3.get("id")
ResolveId(v3, oid) == IF TruthyStr(oid) THEN oid ELSE Get(v3, "id", NoneV)

Envelope(v3, oid) ==
    LET manifest_id == ResolveId(v3, oid)
        label == label_to_v2(Get(v3, "label", NoneT))
        metadata == metadata_to_v2(Get(v3, "metadata", <<>>))
        canvases == canvases_to_v2(Get(v3, "items", <<>>))
    IN  IF label.exc # "" THEN label
        ELSE IF metadata.exc # "" THEN metadata
        ELSE IF canvases.exc # "" THEN canvases
        ELSE Ok([x \in {"@context", "@type", "@id", "label", "metadata", "sequences"} |->
                CASE x = "@context"  -> "http://iiif.io/api/presentation/2/context.json"
                  [] x = "@type"     -> "sc:Manifest"
                  [] x = "@id"       -> manifest_id
                  [] x = "label"     -> label.val
                  [] x = "metadata"  -> metadata.val
                  [] x = "sequences" ->
                        << [y \in {"@type", "canvases"} |->
                              IF y = "@type" THEN "sc:Sequence" ELSE canvases.val] >>])

\* lines 43-47 with index -1 in place of 0
AttachThumbnailLastCanvas(v3, m) ==
    LET items == Get(v3, "items", <<NoneD>>)
    IN  IF Len(items) = 0 THEN Raise("IndexError")
        ELSE LET last_canvas == items[Len(items)]
             IN  IF "thumbnail" \in DOMAIN last_canvas
                 THEN LET thumb == thumbnail_to_v2(last_canvas["thumbnail"])
                      IN  IF thumb.exc # "" THEN thumb
                          ELSE IF thumb.val # NoneD
                               THEN Ok(("thumbnail" :> thumb.val) @@ m)
                               ELSE Ok(m)
                 ELSE Ok(m)

(* convert, converter/converter.py lines 43-47 *)
AttachThumbnail(v3, m) ==
    LET items == Get(v3, "items", <<NoneD>>)
    IN  IF Len(items) = 0 THEN Raise("IndexError")
        ELSE LET first_canvas == items[1]
             IN  IF DOMAIN first_canvas # {} /\ "thumbnail" \in DOMAIN first_canvas
                 THEN LET thumb == thumbnail_to_v2(first_canvas["thumbnail"])
                      IN  IF thumb.exc # "" THEN thumb
                          ELSE IF thumb.val # NoneD
                               THEN Ok(("thumbnail" :> thumb.val) @@ m)
                               ELSE Ok(m)
                 ELSE Ok(m)

(* convert, the behavior step (converter.py 49-50, iiif_downgrade.py 43-44): *)
(* a list is never equal to "", so the test is whether the key is present    *)
AttachViewingHint(v3, m) ==
    IF "behavior" \in DOMAIN v3
    THEN IF Len(v3["behavior"]) = 0 THEN Raise("IndexError")
         ELSE Ok(("viewingHint" :> v3["behavior"][1]) @@ m)
    ELSE Ok(m)

\* the steps after the envelope is bound to self.v2_manifest: a raise leaves
\* self.v2_manifest as the steps before it left it
ConvertTail(v3, withThumbnail, env) ==
    LET th == IF withThumbnail THEN AttachThumbnail(v3, env) ELSE Ok(env)
    IN  IF th.exc # "" THEN [exc |-> th.exc, v2 |-> env]
        ELSE LET vh == AttachViewingHint(v3, th.val)
             IN  IF vh.exc # "" THEN [exc |-> vh.exc, v2 |-> th.val]
                 ELSE [exc |-> "", v2 |-> vh.val]

ConvertBody(manifest, oid, prev, withThumbnail) ==
    IF manifest.kind # "dict" THEN [exc |-> "AttributeError", v2 |-> prev]
    ELSE LET env == Envelope(manifest.dict, oid)
         IN  IF env.exc # "" THEN [exc |-> env.exc, v2 |-> prev]
             ELSE ConvertTail(manifest.dict, withThumbnail, env.val)

\* convert of converter/converter.py: [exc, v2], v2 the value of
\* self.v2_manifest after the call, which is also what it returns
convert_converter(manifest, oid, prev) == ConvertBody(manifest, oid, prev, TRUE)

\* convert of iiif_downgrade.py
convert_iiif_downgrade(manifest, oid, prev) == ConvertBody(manifest, oid, prev, FALSE)

convert(mod, manifest, oid, prev) ==
    IF mod = "converter" THEN convert_converter(manifest, oid, prev)
    ELSE convert_iiif_downgrade(manifest, oid, prev)

(* save: the file holds the document json.dump was given, self.v2_manifest; *)
(* its serialisation (indent, encoding) is not modelled                     *)
save(v2, fs, output_path) ==
    IF DOMAIN v2 = {} THEN Raise("RuntimeError")
    ELSE Ok([fs EXCEPT ![output_path] = v2])

-----------------------------------------------------------------------------
(* Inputs *)
\* language maps: up to MaxLangs entries with distinct tags, each value a list
\* of strings or (malformed) a number
LangNames == <<"en", "fr", "de", "es">>
Langs == {LangNames[i] : i \in 1..MaxLangs}
LangValues ==
    {ListV(s) : s \in SeqUpTo({"Title", "Titre"}, MaxValues)} \cup {NumV(n) : n \in {0, 5}}
LangEntries == {[lang |-> l, values |-> v] : l \in Langs, v \in LangValues}
LangMaps ==
    {m \in SeqUpTo(LangEntries, MaxLangs) :
        \A i, j \in 1..Len(m) : i # j => m[i].lang # m[j].lang}
NonMappings ==
    {NoneT, StrV("Title"), ListV(<<"Title">>), NumV(5)}
LabelObjs == {DictV(m) : m \in LangMaps} \cup NonMappings

\* thumbnails: None, an object (possibly empty), or a list of objects
Services == {a @@ b : a \in Opt("id", {"s1"}), b \in Opt("label", {"Zoom"})}
ThumbObjs ==
    {a @@ b : a \in Opt("id", {"t1"}), b \in Opt("service", SeqUpTo(Services, MaxServices))}
ThumbValues ==
    {NoneT}
        \cup {DictV(t) : t \in ThumbObjs}
        \cup {ListV(l) : l \in SeqUpTo({DictV(t) : t \in ThumbObjs}, MaxThumbnails)}

\* canvases given to the Annotation Mapper
Bodies ==
    {NoneD, "id" :> "img1",
     ("id" :> "img2") @@ ("format" :> "image/jpeg") @@ ("height" :> "100") @@ ("width" :> "80")}
Annos == Opt("body", Bodies \ {NoneD})
Pages == Opt("items", SeqUpTo(Annos, MaxAnnos))
AnnoCanvases ==
    {a @@ b : a \in Opt("id", {"c1"}), b \in Opt("items", SeqUpTo(Pages, MaxPages))}

\* manifests given to the constructor
GoodLabel == DictV(<< [lang |-> "en", values |-> ListV(<<"Title">>)] >>)
BadLabel == DictV(<< [lang |-> "en", values |-> NumV(5)] >>)
OnePage == "items" :> << "items" :> << "body" :> ("id" :> "img1") >> >>
ThumbWithService ==
    DictV(("id" :> "t1") @@ ("service" :> << "id" :> "s1" >>))
ThumbList ==
    ListV(<< DictV("id" :> "t2"), DictV("id" :> "t3") >>)
MainCanvases ==
    { ("id" :> "c1") @@ ("label" :> GoodLabel) @@ ("height" :> "100")
          @@ ("width" :> "80") @@ OnePage @@ ("thumbnail" :> ThumbWithService),
      ("id" :> "c2") @@ ("thumbnail" :> ThumbList),
      ("id" :> "c3") @@ ("height" :> "50") @@ ("thumbnail" :> DictV(NoneD)),
      NoneD }
MetadataLists ==
    { << ("label" :> GoodLabel) @@ ("value" :> GoodLabel), "label" :> GoodLabel >> }
BehaviorLists == { <<>>, <<"paged">>, <<"continuous", "paged">> }
Manifests ==
    {a @@ b @@ c @@ d @@ e @@ f :
        a \in Opt("id", {"m1"}),
        b \in Opt("label", {GoodLabel, BadLabel}),
        c \in Opt("metadata", MetadataLists),
        d \in Opt("items", SeqUpTo(MainCanvases, MaxCanvases)),
        e \in Opt("behavior", BehaviorLists),
        f \in Opt("thumbnail", {ThumbWithService})}
ManifestArgs ==
    {DictV(m) : m \in Manifests}
        \cup {ListV(<<>>), StrV("m1"), NoneT}
OverrideIds == {NoneV, "", "https://example.org/manifest/v2/123.json"}
Modules == {"converter", "iiif_downgrade"}
Paths == {"manifest-v2.json"}

-----------------------------------------------------------------------------
(* The converter instance *)
NoCall == [op |-> "none", arg |-> NoneT, exc |-> ""]

Idle ==
    /\ module = "none"
    /\ alive = FALSE
    /\ v3_manifest = NoneT
    /\ override_id = NoneV
    /\ v2_manifest = NoneD
    /\ files = [p \in Paths |-> NoneD]
    /\ outcome = NoCall
    /\ returned = FALSE

Init ==
    /\ Idle
    /\ fn_arg = NoneT
    /\ fn_res = Pending

\* IIIFv3toV2Converter(manifest, manifest_id) of either file
Construct ==
    /\ ~alive
    /\ \E mod \in Modules, manifest \in ManifestArgs, manifest_id \in OverrideIds :
        LET r == init(manifest, manifest_id)
        IN  /\ outcome' = [op |-> "init", arg |-> manifest, exc |-> r.exc]
            /\ IF r.exc = ""
               THEN /\ alive' = TRUE
                    /\ module' = mod
                    /\ v3_manifest' = r.val.v3_manifest
                    /\ override_id' = r.val.override_id
                    /\ v2_manifest' = r.val.v2_manifest
               ELSE UNCHANGED <<alive, module, v3_manifest, override_id, v2_manifest>>
            /\ UNCHANGED <<files, returned, fn_arg, fn_res>>

\* converter.convert()
Convert ==
    LET r == convert(module, v3_manifest, override_id, v2_manifest)
    IN  /\ alive
        /\ v2_manifest' = r.v2
        /\ outcome' = [op |-> "convert", arg |-> NoneT, exc |-> r.exc]
        /\ returned' = (returned \/ r.exc = "")
        /\ UNCHANGED <<module, alive, v3_manifest, override_id, files, fn_arg, fn_res>>

\* converter.save(output_path)
Save ==
    /\ alive
    /\ \E output_path \in Paths :
        LET r == save(v2_manifest, files, output_path)
        IN  /\ files' = IF r.exc = "" THEN r.val ELSE files
            /\ outcome' = [op |-> "save", arg |-> StrV(output_path), exc |-> r.exc]
            /\ UNCHANGED <<module, alive, v3_manifest, override_id, v2_manifest,
                           returned, fn_arg, fn_res>>

Next == Construct \/ Convert \/ Save

Spec == Init /\ [][Next]_vars

-----------------------------------------------------------------------------
(* The helpers called on their own *)
InitLabel == Idle /\ fn_arg \in LabelObjs /\ fn_res = Pending
CallLabel ==
    /\ fn_res = Pending
    /\ fn_res' = label_to_v2(fn_arg)
    /\ UNCHANGED <<module, alive, v3_manifest, override_id, v2_manifest, files,
                   outcome, returned, fn_arg>>
SpecLabel == InitLabel /\ [][CallLabel]_vars

InitThumbnail == Idle /\ fn_arg \in ThumbValues /\ fn_res = Pending
CallThumbnail ==
    /\ fn_res = Pending
    /\ fn_res' = thumbnail_to_v2(fn_arg)
    /\ UNCHANGED <<module, alive, v3_manifest, override_id, v2_manifest, files,
                   outcome, returned, fn_arg>>
SpecThumbnail == InitThumbnail /\ [][CallThumbnail]_vars

InitAnnotations == Idle /\ fn_arg \in AnnoCanvases /\ fn_res = Pending
CallAnnotations ==
    /\ fn_res = Pending
    /\ fn_res' = Ok(annotations_to_v2(fn_arg))
    /\ UNCHANGED <<module, alive, v3_manifest, override_id, v2_manifest, files,
                   outcome, returned, fn_arg>>
SpecAnnotations == InitAnnotations /\ [][CallAnnotations]_vars

-----------------------------------------------------------------------------
(* Properties *)

\* the dict d without the key k
WithoutKey(d, k) == [x \in DOMAIN d \ {k} |-> d[x]]

Converted == outcome.op = "convert"
ConvertReturned == outcome.op = "convert" /\ outcome.exc = ""
NoFile == \A p \in Paths : files[p] = NoneD

\* convert() of the instance's class on its manifest with the key k removed
ConvertWithout(k) ==
    convert(module, DictV(WithoutKey(v3_manifest.dict, k)), override_id, NoneD)

\* C1: save() writes a file only if an earlier convert() on the instance
\* returned normally; while no convert() has returned normally, save() raises
\* RuntimeError and no file exists.
C1_SaveOnlyAfterConvertReturned ==
    /\ ~returned => NoFile
    /\ (outcome.op = "save" /\ ~returned) => outcome.exc = "RuntimeError"

\* C2: when 'behavior' is absent or an empty sequence, convert() does not raise
\* because of it (it returns whenever it returns for the manifest without the
\* key) and sets no 'viewingHint'; when 'behavior' is a non-empty sequence and
\* convert() returns, 'viewingHint' is its first element.
C2_ViewingHintIffBehaviorNonEmpty ==
    Converted =>
        LET v3 == v3_manifest.dict
            nonEmpty == "behavior" \in DOMAIN v3 /\ Len(v3["behavior"]) > 0
        IN  /\ (~nonEmpty /\ ConvertWithout("behavior").exc = "") =>
                    (outcome.exc = "" /\ "viewingHint" \notin DOMAIN v2_manifest)
            /\ (nonEmpty /\ outcome.exc = "") =>
                    ("viewingHint" \in DOMAIN v2_manifest
                        /\ v2_manifest["viewingHint"] = v3["behavior"][1])

\* C3: for a manifest whose 'items' is a sequence of n >= 0 canvases (or is
\* absent, n = 0) and that converts without its 'items', convert() of
\* converter/converter.py returns a manifest with one sequence of n canvases,
\* canvas i carrying the id, height and width of input canvas i.
C3_CanvasesPreserved ==
    (Converted /\ module = "converter" /\ ConvertWithout("items").exc = "") =>
        LET items == Get(v3_manifest.dict, "items", <<>>)
        IN  /\ outcome.exc = ""
            /\ Len(v2_manifest["sequences"]) = 1
            /\ LET canvases == v2_manifest["sequences"][1]["canvases"]
               IN  /\ Len(canvases) = Len(items)
                   /\ \A i \in 1..Len(items) :
                        /\ canvases[i]["@id"] = Get(items[i], "id", NoneV)
                        /\ canvases[i]["height"] = Get(items[i], "height", NoneV)
                        /\ canvases[i]["width"] = Get(items[i], "width", NoneV)

\* the first element of the value of the first key whose value is a non-empty
\* sequence, "" when there is none or the input is no mapping
FirstNonEmpty(label_obj) ==
    IF label_obj.kind # "dict" THEN ""
    ELSE LET m == label_obj.dict
             S == {i \in 1..Len(m) :
                      m[i].values.kind = "list" /\ Len(m[i].values.list) > 0}
         IN  IF S = {} THEN ""
             ELSE m[CHOOSE i \in S : \A j \in S : i <= j].values.list[1]

\* C4: _label_to_v2 never raises, and returns the first element of the value
\* of the first key whose value is a non-empty sequence, else "".
C4_LabelNeverRaises ==
    fn_res # Pending => (fn_res.exc = "" /\ fn_res.val = FirstNonEmpty(fn_arg))

\* C5: the '@id' of the manifest convert() returns is the override id when that
\* is neither None nor "", and otherwise the v3 manifest's 'id' (None if absent).
C5_OverrideIdWins ==
    ConvertReturned =>
        v2_manifest["@id"] =
            IF override_id \notin {NoneV, ""} THEN override_id
            ELSE IF "id" \in DOMAIN v3_manifest.dict THEN v3_manifest.dict["id"]
            ELSE NoneV

C5_Witness ==
    /\ ConvertReturned
    /\ override_id = "https://example.org/manifest/v2/123.json"
    /\ "id" \in DOMAIN v3_manifest.dict
    /\ v2_manifest["@id"] = override_id

\* C6: _thumbnail_to_v2([t, t2]) = _thumbnail_to_v2(t) for thumbnail objects t
\* and t2 (t possibly the empty object), and the mapper returns None for None
\* and for an empty value.
C6_OnlyFirstThumbnailUsed ==
    fn_res # Pending =>
        /\ (fn_arg.kind = "list" /\ Len(fn_arg.list) = 2) =>
                fn_res = thumbnail_to_v2(fn_arg.list[1])
        /\ ~Truthy(fn_arg) => fn_res = Ok(NoneD)

\* C7: for a manifest with at least one canvas, the manifest convert() of
\* converter/converter.py returns has a top-level 'thumbnail' exactly when the
\* first canvas has a 'thumbnail' for which the Thumbnail Mapper does not
\* return None, and it is then the mapper's result for that thumbnail.
C7_ThumbnailFromFirstCanvas ==
    (ConvertReturned /\ module = "converter"
        /\ Len(Get(v3_manifest.dict, "items", <<>>)) > 0) =>
        LET first == v3_manifest.dict["items"][1]
            mapped == IF "thumbnail" \in DOMAIN first
                      THEN thumbnail_to_v2(first["thumbnail"]).val
                      ELSE NoneD
        IN  /\ "thumbnail" \in DOMAIN v2_manifest <=> mapped # NoneD
            /\ "thumbnail" \in DOMAIN v2_manifest => v2_manifest["thumbnail"] = mapped

C7_Witness ==
    /\ ConvertReturned /\ module = "converter"
    /\ "thumbnail" \in DOMAIN v3_manifest.dict
    /\ Len(Get(v3_manifest.dict, "items", <<>>)) = 2
    /\ "thumbnail" \in DOMAIN v3_manifest.dict["items"][1]
    /\ "thumbnail" \in DOMAIN v3_manifest.dict["items"][2]
    /\ v3_manifest.dict["items"][1]["thumbnail"] = ThumbList
    /\ v3_manifest.dict["items"][2]["thumbnail"] = ThumbWithService
    /\ v2_manifest["thumbnail"]["@id"] = "t2"

\* the annotations of a canvas by <<page, index in page>>, and the place of
\* one in page-major order
AnnoPositions(canvas) ==
    LET pages == Get(canvas, "items", <<>>)
    IN  UNION {{<<p, a>> : a \in 1..Len(Get(pages[p], "items", <<>>))} :
                  p \in 1..Len(pages)}
AnnoRank(canvas, pos) ==
    Cardinality({q \in AnnoPositions(canvas) :
        q[1] < pos[1] \/ (q[1] = pos[1] /\ q[2] <= pos[2])})

\* C8: _annotations_to_v2 returns one entry per annotation of the canvas, page
\* by page and in annotation order within a page; entry k has the k-th
\* annotation body's id as resource '@id' and the canvas's id as 'on'; a canvas
\* without pages and a page without items give no entries, and nothing raises.
C8_AnnotationsFlattened ==
    fn_res # Pending =>
        /\ fn_res.exc = ""
        /\ Len(fn_res.val) = Cardinality(AnnoPositions(fn_arg))
        /\ \A pos \in AnnoPositions(fn_arg) :
            LET anno == fn_arg["items"][pos[1]]["items"][pos[2]]
                image == fn_res.val[AnnoRank(fn_arg, pos)]
            IN  /\ image["resource"]["@id"] = Get(Get(anno, "body", NoneD), "id", NoneV)
                /\ image["on"] = Get(fn_arg, "id", NoneV)

C8_Witness ==
    /\ fn_res # Pending
    /\ "items" \in DOMAIN fn_arg /\ Len(fn_arg["items"]) = 2
    /\ fn_arg["items"][1] = ("items" :> << "body" :> ("id" :> "img1") >>)
    /\ "items" \in DOMAIN fn_arg["items"][2]
    /\ Len(fn_arg["items"][2]["items"]) = 2
    /\ Len(fn_res.val) = 3
    /\ fn_res.val[1]["resource"]["@id"] = "img1"
    /\ fn_res.val[2]["resource"]["@id"] = "img2"
    /\ fn_res.val[3]["resource"]["@id"] = NoneV

\* C9: constructing the converter with a manifest that is not a mapping raises
\* TypeError and leaves no instance, so nothing is converted or written; with a
\* mapping, construction succeeds and v2_manifest is None.
C9_InvalidInputType ==
    /\ (outcome.op = "init" /\ outcome.arg.kind # "dict") =>
            (outcome.exc = "TypeError" /\ ~alive)
    /\ (outcome.op = "init" /\ outcome.arg.kind = "dict") =>
            (outcome.exc = "" /\ alive /\ v3_manifest = outcome.arg
                /\ v2_manifest = NoneD)
    /\ ~alive => (NoFile /\ v2_manifest = NoneD /\ outcome.op \in {"none", "init"})
    /\ alive => v3_manifest.kind = "dict"

C9_Witness ==
    outcome.op = "init" /\ outcome.arg = ListV(<<>>) /\ outcome.exc = "TypeError"

\* C10: on the same manifest and override id the two convert() either both
\* raise or both return, and then their results are equal once the top-level
\* 'thumbnail' is removed from that of converter/converter.py.
C10_VariantsDifferOnlyInThumbnail ==
    Converted =>
        LET a == convert_converter(v3_manifest, override_id, NoneD)
            b == convert_iiif_downgrade(v3_manifest, override_id, NoneD)
        IN  /\ a.exc = "" <=> b.exc = ""
            /\ (a.exc = "" /\ b.exc = "") => WithoutKey(a.v2, "thumbnail") = b.v2

====
